---- MODULE Spec2Model ----
(***************************************************************************)
(* Log-linear model fitting (opt.py): the record aggregator, the two       *)
(* feature-model classes (LogLinModelFromFile, LogLinModelBasic), the      *)
(* softmax probability table, the log-likelihood and its gradient, and the *)
(* objective/gradient closures handed to the minimizer.                    *)
(*                                                                         *)
(* Numbers: numpy floats are modelled in fixed point, one unit = 1/Scale.  *)
(* exp underflows to exactly 0 for a sufficiently negative argument, as    *)
(* the IEEE double does (there below about -745, here below about -6).     *)
(* A token tuple (the RHS) is only ever used as a dictionary key, so it is *)
(* represented by an atom.                                                 *)
(***************************************************************************)
EXTENDS Integers, Sequences, FiniteSets, TLC

VARIABLES
    pc,            \* "start" before the constructor ran, then "built" or "failed"
    inp,           \* the argument of the constructor / of extract_training_data
    variant,       \* "dense" (LogLinModelFromFile) or "basic" (LogLinModelBasic)
    _rules,        \* LogLinModelFromFile._rules : lhs -> (rhs -> feature vector)
    _dim,          \* LogLinModelFromFile._dim
    _rulelist,     \* LogLinModelBasic._rulelist
    _indexdict,    \* LogLinModelBasic._indexdict
    _featvecdict,  \* LogLinModelBasic._featvecdict
    td,            \* the frequency table of extract_training_data
    lam,           \* regularization_lambda bound in train's closures
    ret,           \* what the last call returned or raised
    first          \* one remembered earlier call of a closure of train: the function,
                   \* the point, what it returned, and the rules cached when it ran

vars == <<pc, inp, variant, _rules, _dim, _rulelist, _indexdict, _featvecdict,
          td, lam, ret, first>>

-----------------------------------------------------------------------------
(* Bounds of the model *)

MaxInput == 2
MaxRules == 2
MaxObs == 3
MaxRecords == 2
MaxDim == 2
MaxFreq == 2
BigWeight == 8
Scale == 1000

(* Stand-ins for values of the program *)

NoneDim == -1
FloatMin == -1000000000

LHS == {"S", "T"}
RHS == {"A", "B"}
FeatVals == {0, 1}
WeightVals == {0, 1, BigWeight}
Lambdas == {0, 1}

SeqsUpTo(S, n) == UNION {[1..k -> S] : k \in 0..n}
SeqsOfLen(S, n) == [1..n -> S]
Range(s) == {s[i] : i \in DOMAIN s}
EmptyMap == [k \in {} |-> k]

Vectors == UNION {[1..k -> FeatVals] : k \in 1..MaxDim}
Triples == [lhs : LHS, rhs : RHS, feats : Vectors]
Pairs == LHS \X RHS
Observations == [freq : 0..MaxFreq, lhs : LHS, rhs : RHS]
TrainFeats == {<<0>>, <<1>>, <<0, 1>>, <<1, 0>>}
Records == [freq : {0, 1}, lhs : LHS, rhs : RHS, feats : TrainFeats]

RECURSIVE SetToSeq(_)
SetToSeq(S) ==
    IF S = {} THEN <<>>
    ELSE LET x == CHOOSE y \in S : TRUE IN <<x>> \o SetToSeq(S \ {x})

RECURSIVE SumSeq(_)
SumSeq(s) == IF s = <<>> THEN 0 ELSE Head(s) + SumSeq(Tail(s))

MaxOf(s) == CHOOSE m \in Range(s) : \A v \in Range(s) : v <= m

(* A call's outcome: the object after the call, and the value or exception *)
Ret(self, val) == [self |-> self, val |-> val, exc |-> "none"]
Raise(self, e) == [self |-> self, val |-> <<>>, exc |-> e]

\* statement sequencing: an exception raised by r ends the call, else F continues
Bind(r, F(_)) == IF r.exc # "none" THEN r ELSE F(r)

-----------------------------------------------------------------------------
(* extract_training_data *)

\* a slip: td[lhs][rhs] = freq, the earlier observations of the pair forgotten
AddObservation_overwrite(t, o) ==
    LET t1 == IF o.lhs \in DOMAIN t THEN t ELSE (o.lhs :> EmptyMap) @@ t
    IN [t1 EXCEPT ![o.lhs] = (o.rhs :> o.freq) @@ @]

\* td[lhs][rhs] += freq on a defaultdict of defaultdicts of 0
AddObservation(t, o) ==
    LET t1 == IF o.lhs \in DOMAIN t THEN t ELSE (o.lhs :> EmptyMap) @@ t
        row == IF o.rhs \in DOMAIN t1[o.lhs] THEN t1[o.lhs]
               ELSE (o.rhs :> 0) @@ t1[o.lhs]
    IN [t1 EXCEPT ![o.lhs] = [row EXCEPT ![o.rhs] = @ + o.freq]]

RECURSIVE FoldObservations(_, _)
FoldObservations(t, s) ==
    IF s = <<>> THEN t ELSE FoldObservations(AddObservation(t, Head(s)), Tail(s))

extract_training_data(s) == FoldObservations(EmptyMap, s)

-----------------------------------------------------------------------------
(* LogLinModelFromFile *)

\* self._rules[lhs] on the defaultdict(lambda: {}): a missing key is inserted
DefaultGet(rules, lhs) ==
    IF lhs \in DOMAIN rules THEN rules ELSE (lhs :> EmptyMap) @@ rules

\* one iteration of the constructor's loop
FromFileStep(st, t) ==
    IF st.exc # "none" THEN st
    ELSE IF st.dim # NoneDim /\ st.dim # Len(t.feats)
    THEN [st EXCEPT !.exc = "AssertionError"]
    ELSE LET d == IF st.dim = NoneDim THEN Len(t.feats) ELSE st.dim
             rules1 == DefaultGet(st.rules, t.lhs)
         IN IF t.rhs \in DOMAIN rules1[t.lhs]
            THEN IF rules1[t.lhs][t.rhs] = t.feats
                 THEN [rules |-> rules1, dim |-> d, exc |-> "none"]
                 ELSE [rules |-> rules1, dim |-> d, exc |-> "AssertionError"]
            ELSE [rules |-> [rules1 EXCEPT ![t.lhs] = (t.rhs :> t.feats) @@ @],
                  dim |-> d, exc |-> "none"]

RECURSIVE FromFileLoop(_, _)
FromFileLoop(st, s) ==
    IF s = <<>> THEN st ELSE FromFileLoop(FromFileStep(st, Head(s)), Tail(s))

FromFileInit(s) ==
    FromFileLoop([rules |-> EmptyMap, dim |-> NoneDim, exc |-> "none"], s)

FromFile_dim(self) == Ret(self, self.dim)

\* self._rules.keys(), as the sequence an iteration visits
FromFile_lhss(self) == Ret(self, SetToSeq(DOMAIN self.rules))

FromFile_rhss(self, lhs) ==
    LET s1 == [self EXCEPT !.rules = DefaultGet(self.rules, lhs)]
    IN Ret(s1, SetToSeq(DOMAIN s1.rules[lhs]))

FromFile_featvec(self, lhs, rhs) ==
    LET s1 == [self EXCEPT !.rules = DefaultGet(self.rules, lhs)]
    IN IF rhs \in DOMAIN s1.rules[lhs] THEN Ret(s1, s1.rules[lhs][rhs])
       ELSE Raise(s1, "KeyError")

-----------------------------------------------------------------------------
(* LogLinModelBasic *)

Basic_dim(self) == Ret(self, Len(self.rulelist))

\* list(set([...])): the distinct values, in the set's iteration order
Basic_lhss(self) == Ret(self, SetToSeq({p[1] : p \in Range(self.rulelist)}))

\* a slip: the set() forgotten, a repeated rule listed twice
Basic_rhss_repeated(self, x) ==
    Ret(self, SelectSeq([i \in DOMAIN self.rulelist |->
                            IF self.rulelist[i][1] = x THEN self.rulelist[i][2]
                            ELSE "-"],
                        LAMBDA y : y # "-"))

Basic_rhss(self, x) ==
    Ret(self, SetToSeq({p[2] : p \in {q \in Range(self.rulelist) : q[1] = x}}))

\* list.index: the 0-based position of the first occurrence
ListIndex(l, p) == (CHOOSE i \in DOMAIN l : l[i] = p /\ \A j \in 1..(i - 1) : l[j] # p) - 1

\* a slip: the memo numbers the rules in the order they are first looked up
find_index_lookup_order(self, lhs, rhs) ==
    IF <<lhs, rhs>> \in DOMAIN self.indexdict
    THEN Ret(self, self.indexdict[<<lhs, rhs>>])
    ELSE IF <<lhs, rhs>> \notin Range(self.rulelist) THEN Raise(self, "ValueError")
    ELSE Ret([self EXCEPT !.indexdict =
                 (<<lhs, rhs>> :> Cardinality(DOMAIN self.indexdict)) @@ @],
             ListIndex(self.rulelist, <<lhs, rhs>>))

find_index(self, lhs, rhs) ==
    IF <<lhs, rhs>> \in DOMAIN self.indexdict
    THEN Ret(self, self.indexdict[<<lhs, rhs>>])
    ELSE IF <<lhs, rhs>> \notin Range(self.rulelist) THEN Raise(self, "ValueError")
    ELSE LET index == ListIndex(self.rulelist, <<lhs, rhs>>)
         IN Ret([self EXCEPT !.indexdict = (<<lhs, rhs>> :> index) @@ @], index)

\* a slip: the 1 put at index - 1
OneHot_shifted(n, index) == [i \in 1..n |-> IF i = index THEN 1 ELSE 0]

\* np.zeros(n) followed by v.put(index, 1)
OneHot(n, index) == [i \in 1..n |-> IF i = index + 1 THEN 1 ELSE 0]

Basic_featvec(self, lhs, rhs) ==
    IF <<lhs, rhs>> \in DOMAIN self.featvecdict
    THEN Ret(self, self.featvecdict[<<lhs, rhs>>])
    ELSE Bind(find_index(self, lhs, rhs), LAMBDA r :
            Ret([r.self EXCEPT !.featvecdict =
                    (<<lhs, rhs>> :> OneHot(Len(r.self.rulelist), r.val)) @@ @],
                OneHot(Len(r.self.rulelist), r.val)))

\* othervec[index]
Subscript(self, othervec, index) ==
    IF index + 1 \notin DOMAIN othervec THEN Raise(self, "IndexError")
    ELSE Ret(self, othervec[index + 1])

Basic_featvec_dot(self, x, y, othervec) ==
    Bind(find_index(self, x, y), LAMBDA r : Subscript(r.self, othervec, r.val))

-----------------------------------------------------------------------------
(* LogLinModel: the shared methods, dispatching on the subclass *)

dim(self) == IF self.variant = "dense" THEN FromFile_dim(self) ELSE Basic_dim(self)

lhss(self) == IF self.variant = "dense" THEN FromFile_lhss(self) ELSE Basic_lhss(self)

rhss(self, x) ==
    IF self.variant = "dense" THEN FromFile_rhss(self, x) ELSE Basic_rhss(self, x)

featvec(self, x, y) ==
    IF self.variant = "dense" THEN FromFile_featvec(self, x, y)
    ELSE Basic_featvec(self, x, y)

\* np.dot of two 1-d arrays
dot(self, a, b) ==
    IF Len(a) # Len(b) THEN Raise(self, "ValueError")
    ELSE Ret(self, SumSeq([i \in 1..Len(a) |-> a[i] * b[i]]))

\* the base class hook: np.dot(othervec, self.featvec(x, y))
LogLinModel_featvec_dot(self, x, y, othervec) ==
    Bind(featvec(self, x, y), LAMBDA r : dot(r.self, othervec, r.val))

featvec_dot(self, x, y, othervec) ==
    IF self.variant = "dense" THEN LogLinModel_featvec_dot(self, x, y, othervec)
    ELSE Basic_featvec_dot(self, x, y, othervec)

score(self, weights, x, y) == featvec_dot(self, x, y, weights)

\* np.exp of a difference d <= 0 of scores, in fixed point; exactly 0 once it underflows
RECURSIVE ExpM(_)
ExpM(d) == IF d >= 0 THEN Scale ELSE (ExpM(d + 1) * 368) \div 1000

\* np.log of a fixed-point probability p > 0
RECURSIVE LnM(_)
LnM(n) == IF n <= 1 THEN 0 ELSE 693 + LnM(n \div 2)

LogM(p) == LnM(p) - LnM(Scale)

\* [self.score(weights,x,y) for y in ys]
RECURSIVE ScoresOf(_, _, _, _)
ScoresOf(self, weights, x, ys) ==
    IF ys = <<>> THEN Ret(self, <<>>)
    ELSE Bind(score(self, weights, x, Head(ys)), LAMBDA r :
            Bind(ScoresOf(r.self, weights, x, Tail(ys)), LAMBDA rest :
                Ret(rest.self, <<r.val>> \o rest.val)))

\* scores - scores.max(), exponentiated
ShiftedExp(scores, b) == [i \in DOMAIN scores |-> ExpM(scores[i] - b)]

\* shifted_exp_scores / shifted_exp_scores.sum()
Normalize(shifted_exp_scores, total) ==
    [i \in DOMAIN shifted_exp_scores |-> (shifted_exp_scores[i] * Scale) \div total]

\* for (y, p) in zip(ys, normalized_probs): probtable[x][y] = p
Zip(ys, ps) ==
    [y \in Range(ys) |->
        ps[CHOOSE i \in DOMAIN ys : ys[i] = y /\ \A j \in DOMAIN ys : ys[j] = y => j <= i]]

\* one row of the table, from the scores of the row's alternatives
Softmax(self, ys, scores) ==
    IF scores = <<>> THEN Raise(self, "ValueError")
    ELSE Ret(self, Zip(ys, Normalize(ShiftedExp(scores, MaxOf(scores)),
                                     SumSeq(ShiftedExp(scores, MaxOf(scores))))))

\* the body of the loop over self.lhss()
ProbRow(self, weights, x) ==
    Bind(rhss(self, x), LAMBDA ry :
        Bind(ScoresOf(ry.self, weights, x, ry.val), LAMBDA sc :
            Softmax(sc.self, ry.val, sc.val)))

RECURSIVE ProbRows(_, _, _, _)
ProbRows(self, weights, xs, probtable) ==
    IF xs = <<>> THEN Ret(self, probtable)
    ELSE Bind(ProbRow(self, weights, Head(xs)), LAMBDA r :
            ProbRows(r.self, weights, Tail(xs), (Head(xs) :> r.val) @@ probtable))

probs_from_model(self, weights) ==
    Bind(lhss(self), LAMBDA rl : ProbRows(rl.self, weights, rl.val, EmptyMap))

\* the (lhs, rhs, freq) items of a frequency table, in iteration order
Items(t) ==
    SetToSeq({<<q[1], q[2], t[q[1]][q[2]]>> :
                 q \in {q \in (DOMAIN t) \X RHS : q[2] \in DOMAIN t[q[1]]}})

\* a slip: an entry of frequency 0 skipped before its probability is looked at
RECURSIVE SumLogProb_skip(_, _, _, _)
SumLogProb_skip(self, probtable, items, ll) ==
    IF items = <<>> THEN Ret(self, ll)
    ELSE IF Head(items)[3] = 0
    THEN SumLogProb_skip(self, probtable, Tail(items), ll)
    ELSE IF \/ Head(items)[1] \notin DOMAIN probtable
            \/ Head(items)[2] \notin DOMAIN probtable[Head(items)[1]]
    THEN Raise(self, "KeyError")
    ELSE IF probtable[Head(items)[1]][Head(items)[2]] = 0
    THEN Raise(self, "ProbabilityZeroError")
    ELSE SumLogProb_skip(self, probtable, Tail(items),
             ll + Head(items)[3] * LogM(probtable[Head(items)[1]][Head(items)[2]]))

\* the summation of loglikelihood, logprob raising ProbabilityZeroError on prob == 0.0
RECURSIVE SumLogProb(_, _, _, _)
SumLogProb(self, probtable, items, ll) ==
    IF items = <<>> THEN Ret(self, ll)
    ELSE IF \/ Head(items)[1] \notin DOMAIN probtable
            \/ Head(items)[2] \notin DOMAIN probtable[Head(items)[1]]
    THEN Raise(self, "KeyError")
    ELSE IF probtable[Head(items)[1]][Head(items)[2]] = 0
    THEN Raise(self, "ProbabilityZeroError")
    ELSE SumLogProb(self, probtable, Tail(items),
                    ll + Head(items)[3] * LogM(probtable[Head(items)[1]][Head(items)[2]]))

\* except ProbabilityZeroError: ll = np.finfo('float').min
CatchZero(s) == IF s.exc = "ProbabilityZeroError" THEN Ret(s.self, FloatMin) ELSE s

loglikelihood(self, t, weights) ==
    Bind(probs_from_model(self, weights), LAMBDA pt :
        CatchZero(SumLogProb(pt.self, pt.val, Items(t), 0)))

Zeros(n) == [i \in 1..n |-> 0]
VecAdd(a, b) == [i \in DOMAIN a |-> a[i] + b[i]]
VecSub(a, b) == [i \in DOMAIN a |-> a[i] - b[i]]
VecScale(k, a) == [i \in DOMAIN a |-> k * a[i]]

\* np.zeros(self.dim())
ZerosDim(self) ==
    IF dim(self).val = NoneDim THEN Raise(self, "TypeError")
    ELSE Ret(self, Zeros(dim(self).val))

\* the inner loop of the expectation: foo += probtable[lhs][rhsp] * featvec
RECURSIVE ExpectationOf(_, _, _, _, _)
ExpectationOf(self, probtable, x, ys, foo) ==
    IF ys = <<>> THEN Ret(self, foo)
    ELSE Bind(featvec(self, x, Head(ys)), LAMBDA r :
            ExpectationOf(r.self, probtable, x, Tail(ys),
                          VecAdd(foo, VecScale(probtable[x][Head(ys)], r.val))))

\* the outer loop: expectation[lhs] for lhs in self.lhss()
RECURSIVE Expectations(_, _, _, _)
Expectations(self, probtable, xs, expectation) ==
    IF xs = <<>> THEN Ret(self, expectation)
    ELSE Bind(ZerosDim(self), LAMBDA z :
          Bind(rhss(z.self, Head(xs)), LAMBDA ry :
            Bind(ExpectationOf(ry.self, probtable, Head(xs), ry.val, z.val), LAMBDA r :
              Expectations(r.self, probtable, Tail(xs),
                           (Head(xs) :> r.val) @@ expectation))))

\* freq * (featvec - expectation[lhs]), added to result
GradTerm(self, expectation, x, freq, fv, result) ==
    IF x \notin DOMAIN expectation THEN Raise(self, "KeyError")
    ELSE Ret(self, VecAdd(result,
                          VecScale(freq, VecSub(VecScale(Scale, fv), expectation[x]))))

\* the loop over the training data
RECURSIVE GradSum(_, _, _, _)
GradSum(self, expectation, items, result) ==
    IF items = <<>> THEN Ret(self, result)
    ELSE Bind(featvec(self, Head(items)[1], Head(items)[2]), LAMBDA r :
            Bind(GradTerm(r.self, expectation, Head(items)[1], Head(items)[3],
                          r.val, result), LAMBDA g :
                GradSum(g.self, expectation, Tail(items), g.val)))

loglhdgrad(self, t, weights) ==
    Bind(probs_from_model(self, weights), LAMBDA pt :
      Bind(lhss(pt.self), LAMBDA rl :
        Bind(Expectations(rl.self, pt.val, rl.val, EmptyMap), LAMBDA ex :
          Bind(ZerosDim(ex.self), LAMBDA z :
            GradSum(z.self, ex.val, Items(t), z.val)))))

\* (lam / 2) * norm(weights)**2, the squared norm taken as the sum of squares
penalty(l, weights) ==
    (l * Scale * SumSeq([i \in DOMAIN weights |-> weights[i] * weights[i]])) \div 2

penaltygrad(l, weights) == VecScale(l * Scale, weights)

\* train's closure: penalty(lambda, weights) - self.loglikelihood(td, weights)
objective(self, t, l, weights) ==
    Bind(loglikelihood(self, t, weights), LAMBDA r :
        Ret(r.self, penalty(l, weights) - r.val))

\* train's closure: penaltygrad(lambda, weights) - self.loglhdgrad(td, weights)
gradient(self, t, l, weights) ==
    Bind(loglhdgrad(self, t, weights), LAMBDA r :
        Ret(r.self, VecSub(penaltygrad(l, weights), r.val)))

-----------------------------------------------------------------------------
(* The object, as one record of its fields *)

Self ==
    [variant |-> variant, rules |-> _rules, dim |-> _dim, rulelist |-> _rulelist,
     indexdict |-> _indexdict, featvecdict |-> _featvecdict]

\* the object's fields after a call
Becomes(self) ==
    /\ _rules' = self.rules
    /\ _dim' = self.dim
    /\ _rulelist' = self.rulelist
    /\ _indexdict' = self.indexdict
    /\ _featvecdict' = self.featvecdict

Unbuilt(v) ==
    [variant |-> v, rules |-> EmptyMap, dim |-> NoneDim, rulelist |-> <<>>,
     indexdict |-> EmptyMap, featvecdict |-> EmptyMap]

NoRet == [op |-> "none", args |-> <<>>, val |-> <<>>, exc |-> "none"]
NoFirst == [fn |-> "none", w |-> <<>>, val |-> <<>>, exc |-> "none", cached |-> {}]

\* weight vectors of the model's dimension
Weights(self) ==
    IF dim(self).val = NoneDim THEN {} ELSE SeqsOfLen(WeightVals, dim(self).val)

-----------------------------------------------------------------------------
(* Calls on a built model; each records what it returned or raised *)

Call(op, args, r) ==
    /\ Becomes(r.self)
    /\ ret' = [op |-> op, args |-> args, val |-> r.val, exc |-> r.exc]
    /\ UNCHANGED <<pc, inp, variant, td, lam, first>>

CallLhss == pc = "built" /\ Call("lhss", <<>>, lhss(Self))

CallDim == pc = "built" /\ Call("dim", <<>>, dim(Self))

CallRhss == pc = "built" /\ \E x \in LHS : Call("rhss", <<x>>, rhss(Self, x))

CallFeatvec ==
    pc = "built" /\ \E x \in LHS, y \in RHS :
        Call("featvec", <<x, y>>, featvec(Self, x, y))

CallFindIndex ==
    pc = "built" /\ variant = "basic" /\ \E x \in LHS, y \in RHS :
        Call("find_index", <<x, y>>, find_index(Self, x, y))

CallScore ==
    pc = "built" /\ \E w \in Weights(Self), x \in LHS, y \in RHS :
        Call("score", <<w, x, y>>, score(Self, w, x, y))

CallProbs ==
    pc = "built" /\ \E w \in Weights(Self) :
        Call("probs_from_model", <<w>>, probs_from_model(Self, w))

CallLoglikelihood ==
    pc = "built" /\ \E w \in Weights(Self) :
        Call("loglikelihood", <<w>>, loglikelihood(Self, td, w))

-----------------------------------------------------------------------------
(* LogLinModelFromFile: construction from triples, then any calls *)

InitDense ==
    /\ pc = "start"
    /\ inp \in SeqsUpTo(Triples, MaxInput)
    /\ variant = "dense"
    /\ _rules = EmptyMap /\ _dim = NoneDim
    /\ _rulelist = <<>> /\ _indexdict = EmptyMap /\ _featvecdict = EmptyMap
    /\ td = EmptyMap /\ lam = 0 /\ ret = NoRet /\ first = NoFirst

\* LogLinModelFromFile(inp): the object exists only if no assertion failed
ConstructDense ==
    /\ pc = "start" /\ variant = "dense"
    /\ LET st == FromFileInit(inp)
       IN IF st.exc = "none"
          THEN /\ pc' = "built"
               /\ _rules' = st.rules /\ _dim' = st.dim
               /\ ret' = [NoRet EXCEPT !.op = "__init__"]
          ELSE /\ pc' = "failed"
               /\ UNCHANGED <<_rules, _dim>>
               /\ ret' = [NoRet EXCEPT !.op = "__init__", !.exc = st.exc]
    /\ UNCHANGED <<inp, variant, _rulelist, _indexdict, _featvecdict, td, lam, first>>

NextDense ==
    \/ ConstructDense
    \/ CallLhss
    \/ CallDim
    \/ CallRhss
    \/ CallFeatvec
    \/ CallScore
    \/ CallProbs

SpecDense == InitDense /\ [][NextDense]_vars

-----------------------------------------------------------------------------
(* LogLinModelBasic: construction from a rule list, then any calls *)

InitBasic ==
    /\ pc = "start"
    /\ inp \in SeqsUpTo(Pairs, MaxRules)
    /\ variant = "basic"
    /\ _rules = EmptyMap /\ _dim = NoneDim
    /\ _rulelist = <<>> /\ _indexdict = EmptyMap /\ _featvecdict = EmptyMap
    /\ td = EmptyMap /\ lam = 0 /\ ret = NoRet /\ first = NoFirst

\* LogLinModelBasic(inp)
ConstructBasic ==
    /\ pc = "start" /\ variant = "basic"
    /\ pc' = "built"
    /\ _rulelist' = inp /\ _featvecdict' = EmptyMap /\ _indexdict' = EmptyMap
    /\ ret' = [NoRet EXCEPT !.op = "__init__"]
    /\ UNCHANGED <<inp, variant, _rules, _dim, td, lam, first>>

NextBasic ==
    \/ ConstructBasic
    \/ CallLhss
    \/ CallDim
    \/ CallRhss
    \/ CallFindIndex
    \/ CallFeatvec
    \/ CallScore

SpecBasic == InitBasic /\ [][NextBasic]_vars

-----------------------------------------------------------------------------
(* extract_training_data applied to a sequence of observations *)

InitAgg ==
    /\ pc = "start"
    /\ inp \in SeqsUpTo(Observations, MaxObs)
    /\ variant = "none"
    /\ _rules = EmptyMap /\ _dim = NoneDim
    /\ _rulelist = <<>> /\ _indexdict = EmptyMap /\ _featvecdict = EmptyMap
    /\ td = EmptyMap /\ lam = 0 /\ ret = NoRet /\ first = NoFirst

Extract ==
    /\ pc = "start" /\ variant = "none"
    /\ pc' = "built"
    /\ td' = extract_training_data(inp)
    /\ ret' = [NoRet EXCEPT !.op = "extract_training_data"]
    /\ UNCHANGED <<inp, variant, _rules, _dim, _rulelist, _indexdict, _featvecdict,
                   lam, first>>

NextAgg == Extract

SpecAgg == InitAgg /\ [][NextAgg]_vars

-----------------------------------------------------------------------------
(* run(): the model and the frequency table built from the same records,   *)
(* then the calls train and run make on them                               *)

InitRun ==
    /\ pc = "start"
    /\ inp \in SeqsUpTo(Records, MaxRecords)
    /\ variant \in {"dense", "basic"}
    /\ _rules = EmptyMap /\ _dim = NoneDim
    /\ _rulelist = <<>> /\ _indexdict = EmptyMap /\ _featvecdict = EmptyMap
    /\ td = EmptyMap /\ ret = NoRet /\ first = NoFirst

\* [(lhs,rhs,feats) for (freq,lhs,rhs,feats) in input_data]
TriplesOf(s) ==
    [i \in DOMAIN s |-> [lhs |-> s[i].lhs, rhs |-> s[i].rhs, feats |-> s[i].feats]]

\* [(lhs,rhs) for (freq,lhs,rhs,feats) in input_data]
PairsOf(s) == [i \in DOMAIN s |-> <<s[i].lhs, s[i].rhs>>]

\* [(freq,lhs,rhs) for (freq,lhs,rhs,feats) in input_data]
ObservationsOf(s) ==
    [i \in DOMAIN s |-> [freq |-> s[i].freq, lhs |-> s[i].lhs, rhs |-> s[i].rhs]]

\* the model and td of run(); the records are consumed
Setup ==
    /\ pc = "start" /\ variant \in {"dense", "basic"}
    /\ IF variant = "dense" /\ FromFileInit(TriplesOf(inp)).exc # "none"
       THEN /\ pc' = "failed"
            /\ ret' = [NoRet EXCEPT !.op = "__init__",
                                    !.exc = FromFileInit(TriplesOf(inp)).exc]
            /\ UNCHANGED <<_rules, _dim, _rulelist, td>>
       ELSE /\ pc' = "built"
            /\ ret' = [NoRet EXCEPT !.op = "__init__"]
            /\ IF variant = "dense"
               THEN /\ _rules' = FromFileInit(TriplesOf(inp)).rules
                    /\ _dim' = FromFileInit(TriplesOf(inp)).dim
                    /\ UNCHANGED _rulelist
               ELSE /\ _rulelist' = PairsOf(inp)
                    /\ UNCHANGED <<_rules, _dim>>
            /\ td' = extract_training_data(ObservationsOf(inp))
    /\ inp' = <<>>
    /\ UNCHANGED <<variant, _indexdict, _featvecdict, lam, first>>

InitProb == InitRun /\ lam = 0

NextProb ==
    \/ Setup
    \/ CallProbs
    \/ CallLoglikelihood

SpecProb == InitProb /\ [][NextProb]_vars

\* the points the minimizer evaluates the closures at
TrainWeights(self) ==
    IF dim(self).val = NoneDim THEN {} ELSE SeqsOfLen({0, BigWeight}, dim(self).val)

\* a call of one of train's closures by the minimizer, which keeps the value;
\* any one call may be the one remembered
Closure(fn, w, r) ==
    /\ Becomes(r.self)
    /\ \/ first' = first
       \/ /\ first.fn = "none"
          /\ first' = [fn |-> fn, w |-> w, val |-> r.val, exc |-> r.exc,
                       cached |-> DOMAIN _featvecdict]
    /\ UNCHANGED <<pc, inp, variant, td, lam, ret>>

CallObjective ==
    pc = "built" /\ \E w \in TrainWeights(Self) :
        Closure("objective", w, objective(Self, td, lam, w))

CallGradient ==
    pc = "built" /\ \E w \in TrainWeights(Self) :
        Closure("gradient", w, gradient(Self, td, lam, w))

InitTrain == InitRun /\ lam \in Lambdas

NextTrain ==
    \/ Setup
    \/ CallObjective
    \/ CallGradient

SpecTrain == InitTrain /\ [][NextTrain]_vars

-----------------------------------------------------------------------------
(* Properties *)

\* the (lhs, rhs) pairs of the constructor's argument
InputPairs ==
    IF variant = "basic" THEN Range(inp)
    ELSE {<<inp[i].lhs, inp[i].rhs>> : i \in DOMAIN inp}

InputLhss == {p[1] : p \in InputPairs}

InputRhss(x) == {p[2] : p \in {q \in InputPairs : q[1] = x}}

\* the (lhs, rhs) pairs a dense model stores a feature vector for
StoredPairs == {q \in (DOMAIN _rules) \X RHS : q[2] \in DOMAIN _rules[q[1]]}

SameLength(s) == \A i, j \in DOMAIN s : Len(s[i].feats) = Len(s[j].feats)

UnequalRepeat(s) ==
    \E i, j \in DOMAIN s :
        /\ i < j
        /\ s[i].lhs = s[j].lhs /\ s[i].rhs = s[j].rhs
        /\ s[i].feats # s[j].feats

\* C1: construction of a dense model from triples of one length fails with
\* FeatureMismatchError when a pair repeats with an unequal vector, and otherwise
\* succeeds with exactly one stored entry per distinct pair, holding its vector.
C1_FeatureMismatchError ==
    (ret.op = "__init__" /\ variant = "dense" /\ SameLength(inp)) =>
        IF UnequalRepeat(inp)
        THEN pc = "failed" /\ ret.exc = "FeatureMismatchError"
        ELSE /\ pc = "built"
             /\ StoredPairs = InputPairs
             /\ \A i \in DOMAIN inp : _rules[inp[i].lhs][inp[i].rhs] = inp[i].feats

\* C2: construction of a dense model fixes dim to the length of the first vector,
\* and fails with DimensionMismatchError when a later vector has another length.
C2_DimensionMismatchError ==
    (ret.op = "__init__" /\ variant = "dense" /\ inp # <<>>) =>
        /\ pc = "built" => _dim = Len(inp[1].feats)
        /\ (\E j \in DOMAIN inp : Len(inp[j].feats) # Len(inp[1].feats)) =>
               (pc = "failed" /\ ret.exc = "DimensionMismatchError")

\* C3: dim() of an indicator model is the number of distinct pairs of its rule list.
C3_DimIsDistinctRules ==
    (pc = "built" /\ variant = "basic") =>
        dim(Self).val = Cardinality(Range(inp))

\* C4: for every rule of an indicator model and every weight vector of length dim(),
\* the overridden score equals the generic dot-product score, whatever the memo
\* caches hold and whether or not the rule list has duplicates.
C4_ScoreEqualsDot ==
    (pc = "built" /\ variant = "basic") =>
        \A p \in Range(_rulelist), w \in Weights(Self) :
            /\ score(Self, w, p[1], p[2]).exc = "none"
            /\ LogLinModel_featvec_dot(Self, p[1], p[2], w).exc = "none"
            /\ score(Self, w, p[1], p[2]).val
                   = LogLinModel_featvec_dot(Self, p[1], p[2], w).val

\* a score call returned a nonzero weight for a rule of a list with a duplicate,
\* with both memo caches filled
C4_Witness ==
    /\ pc = "built" /\ variant = "basic"
    /\ ret.op = "score" /\ ret.exc = "none"
    /\ ret.val = BigWeight
    /\ Len(_rulelist) > Cardinality(Range(_rulelist))
    /\ DOMAIN _indexdict # {}
    /\ DOMAIN _featvecdict # {}

\* C5: rhss(lhs) fails with UnknownLHS for an LHS never supplied at construction,
\* and returns exactly the recorded RHSs of an observed LHS.
C5_UnknownLHS ==
    (pc = "built" /\ ret.op = "rhss") =>
        IF ret.args[1] \notin InputLhss
        THEN ret.exc = "UnknownLHS"
        ELSE /\ ret.exc = "none"
             /\ Range(ret.val) = InputRhss(ret.args[1])
             /\ Len(ret.val) = Cardinality(InputRhss(ret.args[1]))

\* C10: whatever calls were made on a built dense model, it is unchanged: lhss() is
\* the set of LHSs supplied at construction and each of them has a recorded RHS.
C10_ModelUnchanged ==
    (pc = "built" /\ variant = "dense") =>
        /\ _rules = FromFileInit(inp).rules
        /\ Range(lhss(Self).val) = InputLhss
        /\ \A x \in Range(lhss(Self).val) : rhss(Self, x).val # <<>>

\* the (lhs, rhs) entries of a frequency table
Entries(t) == {q \in (DOMAIN t) \X RHS : q[2] \in DOMAIN t[q[1]]}

RECURSIVE SumOver(_, _, _)
SumOver(S, t, probtable) ==
    IF S = {} THEN 0
    ELSE LET q == CHOOSE e \in S : TRUE
         IN t[q[1]][q[2]] * LogM(probtable[q[1]][q[2]])
                + SumOver(S \ {q}, t, probtable)

\* the entries of td whose probability under the weights is exactly 0
ZeroEntries(w) ==
    {q \in Entries(td) : probs_from_model(Self, w).val[q[1]][q[2]] = 0}

\* C6: loglikelihood returns the most negative float when the probability of some
\* entry of the frequency table is exactly 0, whatever the entry's frequency, and
\* the sum of freq * log(prob) over all entries otherwise; it never raises.
C6_ZeroProbabilityFloor ==
    (pc = "built" /\ ret.op = "loglikelihood") =>
        /\ ret.exc = "none"
        /\ IF ZeroEntries(ret.args[1]) # {}
           THEN ret.val = FloatMin
           ELSE ret.val = SumOver(Entries(td), td,
                                  probs_from_model(Self, ret.args[1]).val)

\* the floor was returned although every entry of probability 0 has frequency 0,
\* while another entry has a positive frequency
C6_Witness ==
    /\ pc = "built" /\ ret.op = "loglikelihood"
    /\ ret.exc = "none" /\ ret.val = FloatMin
    /\ ZeroEntries(ret.args[1]) # {}
    /\ \A q \in ZeroEntries(ret.args[1]) : td[q[1]][q[2]] = 0
    /\ \E q \in Entries(td) : td[q[1]][q[2]] > 0

\* C7: a closure of train, called again at the point of a remembered call after any
\* other calls of the closures, returns what the remembered call returned.
C7_ClosuresArePure ==
    /\ first.fn = "objective" =>
           /\ objective(Self, td, lam, first.w).exc = first.exc
           /\ first.exc = "none" => objective(Self, td, lam, first.w).val = first.val
    /\ first.fn = "gradient" =>
           /\ gradient(Self, td, lam, first.w).exc = first.exc
           /\ first.exc = "none" => gradient(Self, td, lam, first.w).val = first.val

\* the objective was computed at a nonzero point on an indicator model of two rules
\* with no feature vector cached, and the gradient has filled the cache since
C7_Witness ==
    /\ pc = "built" /\ variant = "basic"
    /\ first.fn = "objective" /\ first.exc = "none" /\ first.cached = {}
    /\ first.val # 0
    /\ first.w # Zeros(Len(first.w))
    /\ DOMAIN _featvecdict # {}
    /\ Cardinality(Range(_rulelist)) > 1

Injective(f) == \A i, j \in DOMAIN f : f[i] = f[j] => i = j

IndexPermutations(n) == {f \in [1..n -> 1..n] : Injective(f)}

RECURSIVE SumFreq(_, _, _)
SumFreq(s, x, y) ==
    IF s = <<>> THEN 0
    ELSE (IF Head(s).lhs = x /\ Head(s).rhs = y THEN Head(s).freq ELSE 0)
             + SumFreq(Tail(s), x, y)

Occurs(s, x, y) == \E i \in DOMAIN s : s[i].lhs = x /\ s[i].rhs = y

\* C8: the table of extract_training_data holds, for each pair that occurs, the sum
\* of the frequencies of its observations, holds nothing else, and is the same for
\* every permutation of the observations.
C8_SumsAndPermutations ==
    (pc = "built" /\ ret.op = "extract_training_data") =>
        /\ \A x \in LHS, y \in RHS :
               IF Occurs(inp, x, y)
               THEN /\ x \in DOMAIN td /\ y \in DOMAIN td[x]
                    /\ td[x][y] = SumFreq(inp, x, y)
               ELSE ~(x \in DOMAIN td /\ y \in DOMAIN td[x])
        /\ DOMAIN td \subseteq LHS
        /\ \A x \in DOMAIN td : DOMAIN td[x] \subseteq RHS /\ DOMAIN td[x] # {}
        /\ \A f \in IndexPermutations(Len(inp)) :
               extract_training_data([i \in DOMAIN inp |-> inp[f[i]]]) = td

\* a pair observed twice with different positive frequencies, between them an
\* observation of another pair
C8_Witness ==
    /\ pc = "built" /\ ret.op = "extract_training_data"
    /\ Len(inp) = 3
    /\ inp[1].lhs = inp[3].lhs /\ inp[1].rhs = inp[3].rhs
    /\ inp[1].freq = 1 /\ inp[3].freq = 2
    /\ inp[2].lhs # inp[1].lhs
    /\ td[inp[1].lhs][inp[1].rhs] = 3

\* C9: with all weights zero, probs_from_model gives every RHS of every LHS of the
\* model the probability 1/n, n the number of distinct RHSs of that LHS (the LHSs
\* and RHSs of the records, which td holds as well).
C9_UniformAtZero ==
    (pc = "built" /\ ret.op = "probs_from_model"
        /\ ret.args[1] = Zeros(Len(ret.args[1]))) =>
        /\ ret.exc = "none"
        /\ DOMAIN ret.val = {p[1] : p \in Entries(td)}
        /\ \A x \in DOMAIN ret.val :
               /\ DOMAIN ret.val[x] = DOMAIN td[x]
               /\ \A y \in DOMAIN ret.val[x] :
                      ret.val[x][y] = Scale \div Cardinality(DOMAIN td[x])

\* the table for zero weights gives 1/2 to each of the two RHSs of an LHS
C9_Witness ==
    /\ pc = "built" /\ ret.op = "probs_from_model" /\ ret.exc = "none"
    /\ ret.args[1] = Zeros(Len(ret.args[1]))
    /\ \E x \in DOMAIN ret.val :
           /\ Cardinality(DOMAIN ret.val[x]) = 2
           /\ \A y \in DOMAIN ret.val[x] : ret.val[x][y] = Scale \div 2

====
